---- MODULE Spec2Model ----
(***************************************************************************)
(* logview: the interactive session engine of src/src/main.rs.             *)
(*                                                                         *)
(* The model follows main() from Config::load to process exit: terminal    *)
(* setup, App::new, the render loop run_app (draw, event::read,            *)
(* handle_key_event, the should_quit check), terminal teardown and the     *)
(* report of the loop's result.  Every fallible call of main ("?") is a    *)
(* step that may succeed or fail.                                          *)
(*                                                                         *)
(* Strings are sequences of one-character strings.                         *)
(***************************************************************************)
EXTENDS Integers, Sequences, FiniteSets, TLC

VARIABLES
    pc,            \* position of the process in main / run_app
    args_file,     \* Args.file : None or Some(path)
    home_dir,      \* whether dirs::home_dir() finds a home directory
    config_disk,   \* what ~/.logview.yml holds on disk
    raw_mode,      \* terminal is in raw mode
    alt_screen,    \* terminal shows the alternate screen
    mouse_capture, \* terminal reports mouse events
    content,       \* App.content
    should_quit,   \* App.should_quit
    input_mode,    \* App.input_mode
    input_buffer,  \* App.input_buffer
    lua,           \* App.lua : the interpreter instance and its globals
    lua_calls,     \* chunks handed to lua.load(..).exec() in this loop iteration
    key_calls,     \* keys handed to handle_key_event in this loop iteration
    ev,            \* the event event::read() returned in this loop iteration
    frame,         \* what the last terminal.draw put on the screen
    res,           \* the value run_app returned to main
    stdout,        \* lines main printed with println!
    stderr,        \* what the runtime printed for an Err returned by main
    exit_code      \* process exit status

vars == << pc, args_file, home_dir, config_disk, raw_mode, alt_screen,
           mouse_capture, content, should_quit, input_mode, input_buffer,
           lua, lua_calls, key_calls, ev, frame, res, stdout, stderr,
           exit_code >>

term == << raw_mode, alt_screen, mouse_capture >>
app  == << content, should_quit, input_mode, input_buffer, lua >>
env  == << args_file, home_dir >>
outs == << stdout, stderr, exit_code >>

----------------------------------------------------------------------------
(* Bounds of the model *)

\* every text of at most MaxFree characters over Chars can be typed
MaxFree == 1

\* the characters the keyboard produces
Chars == {"q", "u", "i", "t", "(", ")", ":", " ", "x", "=", "1"}

\* longer texts the user types, character by character
Texts == { <<"q","u","i","t","(",")">>,
           <<" ","q","u","i","t","(",")">>,
           <<"q","u","i","t","(",")"," ">>,
           <<"x","=","1">>,
           <<"x","=","1",":">>,
           <<"q","=","x">> }

Prefixes(s) == { SubSeq(s, 1, n) : n \in 0..Len(s) }

Typable(s) ==
    \/ Len(s) <= MaxFree
    \/ \E t \in Texts : s \in Prefixes(t)

----------------------------------------------------------------------------
(* Values *)

None == [some |-> FALSE, path |-> ""]
Some(p) == [some |-> TRUE, path |-> p]

\* the files of the model's disk: path -> text, or unreadable
Paths == {"app.log", "gone.log"}
Readable(p) == p = "app.log"
FileText(p) == <<"a", "\n", "\r", "\n", "b", "\r", "\n">>

\* KeyCode
Char(c)   == [k |-> "Char", c |-> c]
Enter     == [k |-> "Enter", c |-> ""]
Esc       == [k |-> "Esc", c |-> ""]
Backspace == [k |-> "Backspace", c |-> ""]
Tab       == [k |-> "Tab", c |-> ""]
NoCode    == [k |-> "None", c |-> ""]
KeyCodes  == {Enter, Esc, Backspace, Tab} \cup { Char(c) : c \in Chars }

\* Event
Key(code, kind) == [type |-> "Key", kind |-> kind, code |-> code]
NoEvent == [type |-> "None", kind |-> "None", code |-> NoCode]
Events ==
    { Key(code, "Press") : code \in KeyCodes }
    \cup { Key(code, kind) : code \in {Char("q"), Enter, Esc}, kind \in {"Release", "Repeat"} }
    \cup { [type |-> t, kind |-> "None", code |-> NoCode] :
             t \in {"Mouse", "Resize", "FocusGained", "Paste"} }

Quit == <<"q","u","i","t","(",")">>

\* the two literal lines of App::new, each written as one piece of text
WelcomeLines == << <<"Welcome to logview!">>,
                   <<"Press ':' to open command prompt, 'q' to quit.">> >>

NoFrame == [drawn |-> FALSE, command_box |-> FALSE, prompt |-> <<>>, list |-> <<>>]

\* global names and values of the interpreter
Letters == {"q", "u", "i", "t", "x"}
Digits  == {"1"}
NoGlobals == [n \in Letters |-> "nil"]
NoLua   == [instance |-> 0, globals |-> NoGlobals]

----------------------------------------------------------------------------
(* Pure functions *)

\* str::lines of fs::read_to_string: split at every "\n", drop one "\r" that
\* precedes the "\n", no line for the empty text after the last "\n"
RECURSIVE LinesFrom(_, _)
LinesFrom(text, cur) ==
    IF text = <<>>
    THEN IF cur = <<>> THEN <<>> ELSE <<cur>>
    ELSE IF Head(text) = "\n"
         THEN LET line == IF cur # <<>> /\ cur[Len(cur)] = "\r"
                          THEN SubSeq(cur, 1, Len(cur) - 1)
                          ELSE cur
              IN  <<line>> \o LinesFrom(Tail(text), <<>>)
         ELSE LinesFrom(Tail(text), Append(cur, Head(text)))

Lines(text) == LinesFrom(text, <<>>)

\* faulty variant of Pop: removes the first character
Pop_First(s) == IF s = <<>> THEN s ELSE Tail(s)

\* String::pop : removes the last character, nothing on the empty string
Pop(s) == IF s = <<>> THEN s ELSE SubSeq(s, 1, Len(s) - 1)

\* format!(":{}", input_buffer)
Prompt(buf) == <<":">> \o buf

\* leading and trailing blanks do not belong to a chunk
RECURSIVE Trim(_)
Trim(s) ==
    IF s = <<>> THEN s
    ELSE IF Head(s) = " " THEN Trim(Tail(s))
    ELSE IF s[Len(s)] = " " THEN Trim(SubSeq(s, 1, Len(s) - 1))
    ELSE s

\* lua.load(chunk).exec() on the chunks over Chars: the empty chunk runs and
\* changes nothing, an assignment name=value runs and binds the global, every
\* other chunk is a syntax error or calls a nil value.  The result is the
\* outcome and the globals afterwards.
LuaExec(globals, chunk) ==
    LET c == Trim(chunk) IN
    IF c = <<>>
    THEN [ok |-> TRUE, globals |-> globals]
    ELSE IF Len(c) = 3 /\ c[1] \in Letters /\ c[2] = "=" /\ c[3] \in Digits
    THEN [ok |-> TRUE, globals |-> [globals EXCEPT ![c[1]] = c[3]]]
    ELSE IF Len(c) = 3 /\ c[1] \in Letters /\ c[2] = "=" /\ c[3] \in Letters
    THEN [ok |-> TRUE, globals |-> [globals EXCEPT ![c[1]] = globals[c[3]]]]
    ELSE [ok |-> FALSE, globals |-> globals]

\* faulty variant of Ui: the command box shows the buffer without the marker
Ui_NoMarker(mode, buf, lines) ==
    [ drawn       |-> TRUE,
      command_box |-> (mode = "Command"),
      prompt      |-> IF mode = "Command" THEN buf ELSE <<>>,
      list        |-> lines ]

\* the Renderer: ui(f, app)
Ui(mode, buf, lines) ==
    [ drawn       |-> TRUE,
      command_box |-> (mode = "Command"),
      prompt      |-> IF mode = "Command" THEN Prompt(buf) ELSE <<>>,
      list        |-> lines ]

----------------------------------------------------------------------------
(* Initial state: the process starts, nothing is constructed yet *)

Init ==
    /\ pc = "load_config"
    /\ args_file \in {None} \cup { Some(p) : p \in Paths }
    /\ home_dir \in BOOLEAN
    /\ config_disk \in {"Missing", "Valid", "Malformed", "Unreadable"}
    /\ raw_mode = FALSE
    /\ alt_screen = FALSE
    /\ mouse_capture = FALSE
    /\ content = <<>>
    /\ should_quit = FALSE
    /\ input_mode = "Normal"
    /\ input_buffer = <<>>
    /\ lua = NoLua
    /\ lua_calls = <<>>
    /\ key_calls = <<>>
    /\ ev = NoEvent
    /\ frame = NoFrame
    /\ res = "None"
    /\ stdout = <<>>
    /\ stderr = <<>>
    /\ exit_code = -1

----------------------------------------------------------------------------
(* main *)

\* main returns Err(e) through "?": the runtime prints it and exits with 1
MainErr(e) ==
    /\ pc' = "exited"
    /\ stderr' = Append(stderr, e)
    /\ exit_code' = 1
    /\ UNCHANGED stdout

\* let _config = Config::load()?;
ConfigLoad ==
    /\ pc = "load_config"
    /\ \/ /\ ~home_dir
          /\ MainErr("Could not find home directory")
          /\ UNCHANGED config_disk
       \/ /\ home_dir
          /\ config_disk = "Missing"
          /\ \/ /\ config_disk' = "Default"
                /\ pc' = "enable_raw_mode"
                /\ UNCHANGED outs
             \/ /\ MainErr("config write")
                /\ UNCHANGED config_disk
       \/ /\ home_dir
          /\ config_disk = "Unreadable"
          /\ MainErr("config read")
          /\ UNCHANGED config_disk
       \/ /\ home_dir
          /\ config_disk \in {"Valid", "Default"}
          /\ pc' = "enable_raw_mode"
          /\ UNCHANGED << config_disk, outs >>
       \/ /\ home_dir
          /\ config_disk = "Malformed"
          /\ \/ /\ config_disk' = "Default"
                /\ pc' = "enable_raw_mode"
                /\ UNCHANGED outs
             \/ /\ MainErr("config write")
                /\ UNCHANGED config_disk
    /\ UNCHANGED << env, term, app, lua_calls, key_calls, ev, frame, res >>

\* enable_raw_mode()?;
EnableRawMode ==
    /\ pc = "enable_raw_mode"
    /\ \/ /\ raw_mode' = TRUE
          /\ pc' = "enter_screen"
          /\ UNCHANGED outs
       \/ /\ MainErr("enable_raw_mode")
          /\ UNCHANGED raw_mode
    /\ UNCHANGED << env, config_disk, alt_screen, mouse_capture, app,
                    lua_calls, key_calls, ev, frame, res >>

\* execute!(stdout, EnterAlternateScreen, EnableMouseCapture)?;
\* the commands are written in order; a failure stops after any of them
EnterScreen ==
    /\ pc = "enter_screen"
    /\ \/ /\ alt_screen' = TRUE
          /\ mouse_capture' = TRUE
          /\ pc' = "new_terminal"
          /\ UNCHANGED outs
       \/ /\ alt_screen' \in BOOLEAN
          /\ mouse_capture' \in {m \in BOOLEAN : m => alt_screen'}
          /\ MainErr("enter alternate screen")
    /\ UNCHANGED << env, config_disk, raw_mode, app, lua_calls, key_calls, ev, frame, res >>

\* let mut terminal = Terminal::new(backend)?;
NewTerminal ==
    /\ pc = "new_terminal"
    /\ \/ /\ pc' = "new_app"
          /\ UNCHANGED outs
       \/ MainErr("Terminal::new")
    /\ UNCHANGED << env, config_disk, term, app, lua_calls, key_calls, ev, frame, res >>

\* let mut app = App::new(args.file)?;
AppNew ==
    /\ pc = "new_app"
    /\ \/ /\ \/ /\ ~args_file.some
                /\ content' = WelcomeLines
             \/ /\ args_file.some
                /\ Readable(args_file.path)
                /\ content' = Lines(FileText(args_file.path))
          /\ lua' = [instance |-> 1, globals |-> NoGlobals]
          /\ should_quit' = FALSE
          /\ input_mode' = "Normal"
          /\ input_buffer' = <<>>
          /\ pc' = "draw"
          /\ UNCHANGED outs
       \/ /\ args_file.some
          /\ ~Readable(args_file.path)
          /\ MainErr("read_to_string")
          /\ UNCHANGED app
    /\ UNCHANGED << env, config_disk, term, lua_calls, key_calls, ev, frame, res >>

----------------------------------------------------------------------------
(* App::handle_key_event *)

IsPress(e) == e.type = "Key" /\ e.kind = "Press"

\* faulty variant of NormalQ: the flag is not set
NormalQ_NoFlag ==
    UNCHANGED << content, should_quit, input_mode, input_buffer, lua, lua_calls >>

\* InputMode::Normal, KeyCode::Char('q')
NormalQ ==
    /\ should_quit' = TRUE
    /\ UNCHANGED << content, input_mode, input_buffer, lua, lua_calls >>

\* faulty variant of NormalColon: the prompt character is stored in the buffer
NormalColon_StoresColon ==
    /\ input_mode' = "Command"
    /\ input_buffer' = <<":">>
    /\ UNCHANGED << content, should_quit, lua, lua_calls >>

\* InputMode::Normal, KeyCode::Char(':')
NormalColon ==
    /\ input_mode' = "Command"
    /\ input_buffer' = <<>>
    /\ UNCHANGED << content, should_quit, lua, lua_calls >>

\* faulty variant of CommandEnter: quit() is not intercepted, every text is executed
CommandEnter_NoIntercept ==
    LET command == input_buffer
        r == LuaExec(lua.globals, command) IN
    /\ lua' = [lua EXCEPT !.globals = r.globals]
    /\ lua_calls' = Append(lua_calls, [chunk |-> command, ok |-> r.ok])
    /\ input_mode' = "Normal"
    /\ input_buffer' = <<>>
    /\ UNCHANGED << content, should_quit >>

\* faulty variant of CommandEnter: every command runs in a new interpreter
CommandEnter_FreshLua ==
    LET command == input_buffer IN
    /\ IF command = Quit
       THEN /\ should_quit' = TRUE
            /\ UNCHANGED << lua, lua_calls >>
       ELSE LET r == LuaExec(NoGlobals, command) IN
            /\ lua' = [lua EXCEPT !.globals = r.globals]
            /\ lua_calls' = Append(lua_calls, [chunk |-> command, ok |-> r.ok])
            /\ UNCHANGED should_quit
    /\ input_mode' = "Normal"
    /\ input_buffer' = <<>>
    /\ UNCHANGED content

\* faulty variant of CommandEnter: blanks around quit() are ignored
CommandEnter_TrimmedQuit ==
    LET command == input_buffer IN
    /\ IF Trim(command) = Quit
       THEN /\ should_quit' = TRUE
            /\ UNCHANGED << lua, lua_calls >>
       ELSE LET r == LuaExec(lua.globals, command) IN
            /\ lua' = [lua EXCEPT !.globals = r.globals]
            /\ lua_calls' = Append(lua_calls, [chunk |-> command, ok |-> r.ok])
            /\ UNCHANGED should_quit
    /\ input_mode' = "Normal"
    /\ input_buffer' = <<>>
    /\ UNCHANGED content

\* faulty variant of CommandEnter: a failed execution ends the session
CommandEnter_QuitOnError ==
    LET command == input_buffer IN
    /\ IF command = Quit
       THEN /\ should_quit' = TRUE
            /\ UNCHANGED << lua, lua_calls >>
       ELSE LET r == LuaExec(lua.globals, command) IN
            /\ lua' = [lua EXCEPT !.globals = r.globals]
            /\ lua_calls' = Append(lua_calls, [chunk |-> command, ok |-> r.ok])
            /\ should_quit' = ~r.ok
    /\ input_mode' = "Normal"
    /\ input_buffer' = <<>>
    /\ UNCHANGED content

\* InputMode::Command, KeyCode::Enter
CommandEnter ==
    LET command == input_buffer IN
    /\ IF command = Quit
       THEN /\ should_quit' = TRUE
            /\ UNCHANGED << lua, lua_calls >>
       ELSE LET r == LuaExec(lua.globals, command) IN
            /\ lua' = [lua EXCEPT !.globals = r.globals]
            /\ lua_calls' = Append(lua_calls, [chunk |-> command, ok |-> r.ok])
            /\ UNCHANGED should_quit
    /\ input_mode' = "Normal"
    /\ input_buffer' = <<>>
    /\ UNCHANGED content

\* faulty variant of CommandEsc: the mode changes, the buffer is kept
CommandEsc_KeepsBuffer ==
    /\ input_mode' = "Normal"
    /\ UNCHANGED << content, should_quit, input_buffer, lua, lua_calls >>

\* faulty variant of CommandEsc: the buffer is cleared, the mode is kept
CommandEsc_StaysInCommand ==
    /\ input_buffer' = <<>>
    /\ UNCHANGED << content, should_quit, input_mode, lua, lua_calls >>

\* faulty variant of CommandEsc: Esc submits the command like Enter
CommandEsc_Submits == CommandEnter

\* InputMode::Command, KeyCode::Esc
CommandEsc ==
    /\ input_mode' = "Normal"
    /\ input_buffer' = <<>>
    /\ UNCHANGED << content, should_quit, lua, lua_calls >>

\* InputMode::Command, KeyCode::Backspace
CommandBackspace ==
    /\ input_buffer' = Pop(input_buffer)
    /\ UNCHANGED << content, should_quit, input_mode, lua, lua_calls >>

\* faulty variant of CommandChar: the character is put in front
CommandChar_Prepends(c) ==
    /\ input_buffer' = <<c>> \o input_buffer
    /\ UNCHANGED << content, should_quit, input_mode, lua, lua_calls >>

\* InputMode::Command, KeyCode::Char(c)
CommandChar(c) ==
    /\ input_buffer' = Append(input_buffer, c)
    /\ UNCHANGED << content, should_quit, input_mode, lua, lua_calls >>

handle_key_event(key) ==
    IF input_mode = "Normal"
    THEN CASE key = Char("q") -> NormalQ
           [] key = Char(":") -> NormalColon
           [] OTHER -> UNCHANGED << app, lua_calls >>
    ELSE CASE key = Enter -> CommandEnter
           [] key = Esc -> CommandEsc
           [] key = Backspace -> CommandBackspace
           [] key.k = "Char" -> CommandChar(key.c)
           [] OTHER -> UNCHANGED << app, lua_calls >>

----------------------------------------------------------------------------
(* run_app *)

\* run_app returns to main
Return(r) ==
    /\ res' = r
    /\ pc' = "disable_raw_mode"

\* terminal.draw(|f| ui(f, app))?;
Draw ==
    /\ pc = "draw"
    /\ \/ /\ frame' = Ui(input_mode, input_buffer, content)
          /\ pc' = "read"
          /\ UNCHANGED res
       \/ /\ Return("Err(draw)")
          /\ UNCHANGED frame
    /\ UNCHANGED << env, config_disk, term, app, lua_calls, key_calls, ev, outs >>

\* the events the model's keyboard delivers in the current state
Deliverable(e) ==
    (IsPress(e) /\ e.code.k = "Char" /\ input_mode = "Command")
        => Typable(Append(input_buffer, e.code.c))

\* event::read()?
Read ==
    /\ pc = "read"
    /\ \/ /\ \E e \in Events :
               /\ Deliverable(e)
               /\ ev' = e
          /\ pc' = "dispatch"
          /\ UNCHANGED res
       \/ /\ Return("Err(read)")
          /\ UNCHANGED ev
    /\ UNCHANGED << env, config_disk, term, app, lua_calls, key_calls, frame,
                    outs >>

\* faulty variant of Dispatch: every key event is handled, whatever its kind
Dispatch_AnyKind ==
    /\ pc = "dispatch"
    /\ IF ev.type = "Key"
       THEN /\ handle_key_event(ev.code)
            /\ key_calls' = Append(key_calls, ev.code)
       ELSE UNCHANGED << app, lua_calls, key_calls >>
    /\ pc' = "check"
    /\ UNCHANGED << env, config_disk, term, ev, frame, res, outs >>

\* if let Event::Key(key) = .. { if key.kind == KeyEventKind::Press { .. } }
Dispatch ==
    /\ pc = "dispatch"
    /\ IF ev.type = "Key" /\ ev.kind = "Press"
       THEN /\ handle_key_event(ev.code)
            /\ key_calls' = Append(key_calls, ev.code)
       ELSE UNCHANGED << app, lua_calls, key_calls >>
    /\ pc' = "check"
    /\ UNCHANGED << env, config_disk, term, ev, frame, res, outs >>

\* faulty variant of Check: the next iteration starts at the read, no draw
Check_SkipsDraw ==
    /\ pc = "check"
    /\ IF should_quit
       THEN Return("Ok")
       ELSE /\ pc' = "read"
            /\ UNCHANGED res
    /\ ev' = NoEvent
    /\ lua_calls' = <<>>
    /\ key_calls' = <<>>
    /\ UNCHANGED << env, config_disk, term, app, frame, outs >>

\* faulty variant of Check: the loop never looks at should_quit
Check_NeverReturns ==
    /\ pc = "check"
    /\ pc' = "draw"
    /\ ev' = NoEvent
    /\ lua_calls' = <<>>
    /\ key_calls' = <<>>
    /\ UNCHANGED << env, config_disk, term, app, frame, res, outs >>

\* if app.should_quit { return Ok(()); }   and the end of the loop body
Check ==
    /\ pc = "check"
    /\ IF should_quit
       THEN Return("Ok")
       ELSE /\ pc' = "draw"
            /\ UNCHANGED res
    /\ ev' = NoEvent
    /\ lua_calls' = <<>>
    /\ key_calls' = <<>>
    /\ UNCHANGED << env, config_disk, term, app, frame, outs >>

----------------------------------------------------------------------------
(* main, after run_app *)

\* disable_raw_mode()?;
DisableRawMode ==
    /\ pc = "disable_raw_mode"
    /\ \/ /\ raw_mode' = FALSE
          /\ pc' = "leave_screen"
          /\ UNCHANGED outs
       \/ /\ MainErr("disable_raw_mode")
          /\ UNCHANGED raw_mode
    /\ UNCHANGED << env, config_disk, alt_screen, mouse_capture, app,
                    lua_calls, key_calls, ev, frame, res >>

\* execute!(terminal.backend_mut(), LeaveAlternateScreen, DisableMouseCapture)?;
LeaveScreen ==
    /\ pc = "leave_screen"
    /\ \/ /\ alt_screen' = FALSE
          /\ mouse_capture' = FALSE
          /\ pc' = "show_cursor"
          /\ UNCHANGED outs
       \/ /\ alt_screen' \in {alt_screen, FALSE}
          /\ mouse_capture' \in {m \in {mouse_capture, FALSE} : ~m => ~alt_screen'}
          /\ MainErr("leave alternate screen")
    /\ UNCHANGED << env, config_disk, raw_mode, app, lua_calls, key_calls, ev, frame, res >>

\* terminal.show_cursor()?;
ShowCursor ==
    /\ pc = "show_cursor"
    /\ \/ /\ pc' = "report"
          /\ UNCHANGED outs
       \/ MainErr("show_cursor")
    /\ UNCHANGED << env, config_disk, term, app, lua_calls, key_calls, ev, frame, res >>

\* if let Err(err) = res { println!("{err:?}"); }  Ok(())
Report ==
    /\ pc = "report"
    /\ stdout' = IF res = "Ok" THEN stdout ELSE Append(stdout, res)
    /\ exit_code' = 0
    /\ pc' = "exited"
    /\ UNCHANGED << env, config_disk, term, app, lua_calls, key_calls, ev, frame, res, stderr >>

----------------------------------------------------------------------------

Next ==
    \/ ConfigLoad
    \/ EnableRawMode
    \/ EnterScreen
    \/ NewTerminal
    \/ AppNew
    \/ Draw
    \/ Read
    \/ Dispatch
    \/ Check
    \/ DisableRawMode
    \/ LeaveScreen
    \/ ShowCursor
    \/ Report

Spec == Init /\ [][Next]_vars

----------------------------------------------------------------------------
(* Properties *)

\* the loop is about to hand a press of `code` to handle_key_event
Pressed(code) == pc = "dispatch" /\ ev = Key(code, "Press")

\* handle_key_event has just returned from a press of `code`
Handled(code) == pc = "check" /\ ev = Key(code, "Press")

\* C1: after every transition, input_buffer (pending_command) is empty
\* whenever input_mode is Normal.
C1_NormalModeBufferEmpty ==
    input_mode = "Normal" => input_buffer = <<>>

\* C1 witness: Esc has discarded a typed, non-empty command; the last frame
\* still shows it, the mode is Normal again.
C1_Witness ==
    /\ Handled(Esc)
    /\ frame.command_box
    /\ Len(frame.prompt) > 1
    /\ input_mode = "Normal"
    /\ input_buffer = <<>>

\* C2 as stated: a press of ':' leaves input_buffer empty, whatever the mode
\* and whatever the buffer held.
C2_ColonAlwaysClears ==
    [][ Pressed(Char(":")) => input_buffer' = <<>> ]_vars

\* C2 as amended: a press of ':' in Normal mode enters Command mode with an
\* empty input_buffer; in Command mode ':' is appended to input_buffer like
\* any other character and the mode stays Command.
C2_ColonClearsInNormalAppendsInCommand ==
    [][ Pressed(Char(":")) =>
          /\ input_mode' = "Command"
          /\ input_buffer' = IF input_mode = "Normal"
                             THEN <<>>
                             ELSE Append(input_buffer, ":") ]_vars

\* C2 witness: ':' was pressed in Normal mode (the frame shows no command
\* box); the mode is Command and the buffer is empty.
C2_Witness ==
    /\ Handled(Char(":"))
    /\ frame.drawn
    /\ ~frame.command_box
    /\ input_mode = "Command"
    /\ input_buffer = <<>>

\* C3: in Normal mode a press of 'q' sets should_quit and changes nothing
\* else: the mode stays Normal, the buffer stays empty, content is unchanged
\* and the interpreter is not invoked.
C3_NormalQOnlySetsQuit ==
    [][ (Pressed(Char("q")) /\ input_mode = "Normal") =>
          /\ should_quit'
          /\ input_mode' = "Normal"
          /\ input_buffer' = <<>>
          /\ content' = content
          /\ lua' = lua
          /\ lua_calls' = <<>> ]_vars

\* C3 witness: 'q' was pressed in Normal mode and should_quit is set.
C3_Witness ==
    /\ Handled(Char("q"))
    /\ input_mode = "Normal"
    /\ ~frame.command_box
    /\ should_quit

\* C4: in Command mode, Enter on the text quit() sets should_quit and does
\* not invoke the interpreter: no call is made and the globals are unchanged.
C4_QuitCommandBypassesLua ==
    [][ (Pressed(Enter) /\ input_mode = "Command" /\ input_buffer = Quit) =>
          /\ should_quit'
          /\ lua' = lua
          /\ lua_calls' = lua_calls
          /\ lua_calls' = <<>> ]_vars

\* C4 witness: Enter was pressed while the frame showed :quit(); should_quit
\* is set and no chunk was executed.
C4_Witness ==
    /\ Handled(Enter)
    /\ frame.prompt = Prompt(Quit)
    /\ should_quit
    /\ lua_calls = <<>>

\* C5: in Command mode, Enter on any text other than quit() (the empty text
\* included) invokes the interpreter exactly once, with exactly that text;
\* afterwards the mode is Normal and the buffer empty, on success and on
\* failure; should_quit is unchanged, and the loop goes on to its next
\* iteration.
C5_OtherTextExecutedOnce ==
    [][ /\ (Pressed(Enter) /\ input_mode = "Command" /\ input_buffer # Quit) =>
              /\ Len(lua_calls') = 1
              /\ lua_calls'[1].chunk = input_buffer
              /\ lua'.instance = lua.instance
              /\ input_mode' = "Normal"
              /\ input_buffer' = <<>>
              /\ should_quit' = should_quit
              /\ pc' = "check"
        /\ (pc = "check" /\ ~should_quit) => pc' = "draw" ]_vars

\* C5 witness: a command other than quit() was submitted and failed; the
\* session is in Normal mode with an empty buffer and has not quit.
C5_Witness ==
    /\ Handled(Enter)
    /\ Len(lua_calls) = 1
    /\ ~lua_calls[1].ok
    /\ lua_calls[1].chunk # <<>>
    /\ input_mode = "Normal"
    /\ input_buffer = <<>>
    /\ ~should_quit

\* C6: in Command mode, Esc yields Normal mode with an empty buffer, invokes
\* no interpreter call and does not set should_quit, whatever the buffer
\* held.
C6_EscDiscards ==
    [][ (Pressed(Esc) /\ input_mode = "Command") =>
          /\ input_mode' = "Normal"
          /\ input_buffer' = <<>>
          /\ lua' = lua
          /\ lua_calls' = <<>>
          /\ should_quit' = should_quit
          /\ ~should_quit' ]_vars

\* C6 witness: Esc was pressed while the frame showed :quit(); the session
\* is in Normal mode and has not quit.
C6_Witness ==
    /\ Handled(Esc)
    /\ frame.prompt = Prompt(Quit)
    /\ input_mode = "Normal"
    /\ input_buffer = <<>>
    /\ ~should_quit
    /\ lua_calls = <<>>

\* C7: in Command mode, Backspace removes exactly the last character of a
\* non-empty buffer and changes nothing of the session on an empty one; the
\* mode stays Command in both cases.
C7_BackspaceRemovesLast ==
    [][ (Pressed(Backspace) /\ input_mode = "Command") =>
          /\ IF input_buffer = <<>>
             THEN input_buffer' = <<>>
             ELSE /\ Len(input_buffer') = Len(input_buffer) - 1
                  /\ \A i \in 1..Len(input_buffer') :
                         input_buffer'[i] = input_buffer[i]
          /\ input_mode' = "Command"
          /\ content' = content
          /\ should_quit' = should_quit
          /\ lua' = lua
          /\ lua_calls' = lua_calls ]_vars

\* C7 witness: Backspace was pressed on the empty buffer (the frame showed
\* only the prompt marker); the session is unchanged, in Command mode.
C7_Witness ==
    /\ Handled(Backspace)
    /\ frame.prompt = <<":">>
    /\ input_mode = "Command"
    /\ input_buffer = <<>>

\* C8: should_quit never goes from true to false, and once it is true the
\* loop returns at the check of that same iteration: no further draw, no
\* further read, no further dispatch.
C8_QuitIsFinal ==
    [][ /\ should_quit => should_quit'
        /\ should_quit' => pc' \notin {"draw", "read", "dispatch"}
        /\ should_quit => (frame' = frame /\ ev' \in {ev, NoEvent})
        /\ (should_quit /\ pc = "check") =>
               (pc' = "disable_raw_mode" /\ res' = "Ok") ]_vars

\* C8 witness: the loop has returned Ok to main after should_quit was set.
C8_Witness ==
    /\ should_quit
    /\ res = "Ok"
    /\ pc = "disable_raw_mode"

\* C9: the terminal modes are entered before the first render, and on every
\* exit path from the render loop raw mode, alternate screen and mouse
\* capture are all restored before anything is printed and before the
\* process exits.
C9_RestoredOnEveryLoopExit ==
    /\ pc = "draw" => (raw_mode /\ alt_screen /\ mouse_capture)
    /\ (res # "None" /\ (pc = "exited" \/ stdout # <<>> \/ stderr # <<>>)) =>
           (~raw_mode /\ ~alt_screen /\ ~mouse_capture)

\* C10: the process never ends with the terminal still in raw mode, whatever
\* step fails after raw mode was enabled.
C10_NeverExitsInRawMode ==
    pc = "exited" => ~raw_mode

\* C11: when reading the file argument fails, startup aborts before the
\* terminal is entered: at the read failure raw mode is not enabled and the
\* alternate screen is not entered.
C11_ReadFailureBeforeTerminal ==
    stderr = <<"read_to_string">> => (~raw_mode /\ ~alt_screen)

\* C12: a config file that is missing, unreadable or unparseable never makes
\* Config::load return an error to main: the default configuration is used,
\* a missing or unparseable file is replaced by the default serialized form,
\* and startup proceeds.
C12_ConfigFaultsRecovered ==
    (home_dir /\ pc # "load_config") =>
        /\ stderr # <<"config read">>
        /\ stderr # <<"config write">>
        /\ config_disk \notin {"Missing", "Malformed"}

\* C13: the session has one interpreter instance, created by App::new and
\* never replaced; its globals change only by an executed command, and every
\* executed command runs on the globals the earlier commands left, so a
\* binding made by one command is seen by every later one, across mode
\* changes, Esc and failed commands.
C13_OneLuaForTheSession ==
    [][ /\ lua.instance = 1 => lua'.instance = 1
        /\ lua.instance = 0 => (lua'.instance = 0 \/ (pc = "new_app" /\ lua'.globals = NoGlobals))
        /\ lua'.globals # lua.globals =>
              (Pressed(Enter) /\ input_mode = "Command" /\ input_buffer # Quit)
        /\ (Pressed(Enter) /\ input_mode = "Command" /\ input_buffer # Quit) =>
              /\ lua'.globals = LuaExec(lua.globals, input_buffer).globals
              /\ \A n \in Letters :
                    (lua.globals[n] # "nil" /\ ~LuaExec(lua.globals, input_buffer).ok)
                        => lua'.globals[n] = lua.globals[n] ]_vars

\* C13 witness: q=x has just been executed and q holds the value an earlier
\* command gave to x.
C13_Witness ==
    /\ Handled(Enter)
    /\ Len(lua_calls) = 1
    /\ lua_calls[1].chunk = <<"q","=","x">>
    /\ lua_calls[1].ok
    /\ lua.globals["x"] = "1"
    /\ lua.globals["q"] = "1"
    /\ lua.instance = 1

\* C14: only key-press events reach handle_key_event: a key release, a key
\* repeat and every event that is no key event leave mode, buffer,
\* should_quit, content and the interpreter unchanged, and every key-press
\* event causes exactly one call of handle_key_event, with its key code.
C14_OnlyPressesDispatched ==
    [][ pc = "dispatch" =>
          /\ IsPress(ev) => key_calls' = <<ev.code>>
          /\ ~IsPress(ev) =>
                /\ key_calls' = <<>>
                /\ input_mode' = input_mode
                /\ input_buffer' = input_buffer
                /\ should_quit' = should_quit
                /\ content' = content
                /\ lua' = lua
                /\ lua_calls' = <<>> ]_vars

\* C14 witness: the release of 'q' was read in Normal mode; no call was made
\* and the session has not quit.
C14_Witness ==
    /\ pc = "check"
    /\ ev = Key(Char("q"), "Release")
    /\ input_mode = "Normal"
    /\ key_calls = <<>>
    /\ ~should_quit

\* C15: an I/O failure of the draw or of the read ends the loop in that
\* iteration without a retry; the error is printed to standard output after
\* the terminal is restored and the process exits with code 0; a normal quit
\* exits with code 0 too.
C15_LoopErrorPrintedExitZero ==
    /\ res \in {"Err(draw)", "Err(read)"} =>
           pc \notin {"draw", "read", "dispatch", "check"}
    /\ (pc = "exited" /\ res \in {"Err(draw)", "Err(read)"}) =>
           /\ exit_code = 0
           /\ stdout = <<res>>
           /\ ~raw_mode /\ ~alt_screen /\ ~mouse_capture
    /\ (pc = "exited" /\ res = "Ok") => exit_code = 0

\* C16: the frame is a projection of the session state: the command box is
\* there exactly in Command mode and then shows ':' followed by the buffer;
\* the list shows every line of content in order, in both modes; drawing
\* changes no field of the session.
C16_FrameIsProjection ==
    [][ (pc = "draw" /\ pc' = "read") =>
          /\ frame'.drawn
          /\ frame'.command_box <=> (input_mode = "Command")
          /\ frame'.command_box =>
                /\ Len(frame'.prompt) = Len(input_buffer) + 1
                /\ frame'.prompt[1] = ":"
                /\ \A i \in 1..Len(input_buffer) :
                       frame'.prompt[i + 1] = input_buffer[i]
          /\ frame'.list = content
          /\ content' = content
          /\ input_mode' = input_mode
          /\ input_buffer' = input_buffer
          /\ should_quit' = should_quit
          /\ lua' = lua ]_vars

\* C16 witness: a frame drawn in Command mode over the lines of a file shows
\* :x=1 and the three lines.
C16_Witness ==
    /\ pc = "read"
    /\ frame.command_box
    /\ frame.prompt = <<":", "x", "=", "1">>
    /\ frame.list = << <<"a">>, <<>>, <<"b">> >>
    /\ input_buffer = <<"x", "=", "1">>

\* C17: each iteration draws, then reads one event, then dispatches it, then
\* checks should_quit, in that order; every read follows a draw of the state
\* all earlier transitions produced; a command submitted with Enter has run
\* to completion within the dispatch, before the next draw, so no frame is
\* drawn with a command box for a command already submitted.
C17_DrawReadDispatchCheck ==
    [][ /\ pc = "draw" => pc' \in {"read", "disable_raw_mode"}
        /\ pc = "read" => pc' \in {"dispatch", "disable_raw_mode"}
        /\ pc = "dispatch" => pc' = "check"
        /\ pc = "check" => pc' \in {"draw", "disable_raw_mode"}
        /\ pc' \in {"read", "dispatch"} =>
              frame' = Ui(input_mode', input_buffer', content')
        /\ (Pressed(Enter) /\ input_mode = "Command") =>
              (input_mode' = "Normal" /\ input_buffer' = <<>>)
        /\ (pc = "draw" /\ pc' = "read" /\ frame'.command_box) =>
              input_mode = "Command" ]_vars

\* C17 witness: after x=1 was executed the next frame is drawn without the
\* command box and the loop waits for the next event.
C17_Witness ==
    /\ pc = "read"
    /\ lua.globals["x"] = "1"
    /\ input_mode = "Normal"
    /\ frame.drawn
    /\ ~frame.command_box

\* C18: handle_key_event never changes content: after every transition it is
\* what App::new made of the file argument (the two welcome lines without
\* one); and every character typed in Command mode is appended, so c1..cn
\* typed after ':' give the buffer c1..cn.
C18_ContentFixedTypingAppends ==
    [][ /\ lua'.instance = 1 =>
              content' = IF args_file.some
                         THEN << <<"a">>, <<>>, <<"b">> >>
                         ELSE << <<"Welcome to logview!">>,
                                 <<"Press ':' to open command prompt, 'q' to quit.">> >>
        /\ pc = "dispatch" => content' = content
        /\ (Pressed(Char(":")) /\ input_mode = "Normal") =>
              (input_mode' = "Command" /\ input_buffer' = <<>>)
        /\ (pc = "dispatch" /\ IsPress(ev) /\ ev.code.k = "Char"
              /\ input_mode = "Command") =>
              input_buffer' = input_buffer \o <<ev.code.c>> ]_vars

\* C18 witness: x, =, 1 were typed after ':' with no file argument; the
\* buffer is x=1 and content is the two welcome lines.
C18_Witness ==
    /\ Handled(Char("1"))
    /\ input_mode = "Command"
    /\ input_buffer = <<"x", "=", "1">>
    /\ ~args_file.some
    /\ Len(content) = 2

\* C19: should_quit becomes true only by 'q' pressed in Normal mode or by
\* Enter pressed in Command mode on exactly quit().  In Command mode 'q' is
\* appended and does not quit, and every other text, a near miss of quit()
\* included, is handed to the interpreter and does not quit.
C19_OnlyTwoWaysToQuit ==
    [][ /\ (~should_quit /\ should_quit') =>
              /\ pc = "dispatch"
              /\ IsPress(ev)
              /\ \/ (input_mode = "Normal" /\ ev.code = Char("q"))
                 \/ (input_mode = "Command" /\ ev.code = Enter
                        /\ input_buffer = <<"q","u","i","t","(",")">>)
        /\ (Pressed(Char("q")) /\ input_mode = "Command") =>
              (input_buffer' = Append(input_buffer, "q") /\ ~should_quit')
        /\ (Pressed(Enter) /\ input_mode = "Command"
              /\ input_buffer # <<"q","u","i","t","(",")">>) =>
              /\ ~should_quit'
              /\ Len(lua_calls') = 1
              /\ lua_calls'[1].chunk = input_buffer ]_vars

\* C19 witness: quit() with a leading blank was submitted; it went to the
\* interpreter and the session has not quit.
C19_Witness ==
    /\ Handled(Enter)
    /\ Len(lua_calls) = 1
    /\ lua_calls[1].chunk = <<" ","q","u","i","t","(",")">>
    /\ ~should_quit

\* C20: the user can always quit with Esc then 'q': from every state of the
\* loop Esc leaves the session in Normal mode without a call of the
\* interpreter, nothing up to the dispatch of the next key changes the mode,
\* 'q' in Normal mode sets should_quit without a call of the interpreter,
\* and the check that follows returns from the loop.
C20_EscThenQQuits ==
    [][ /\ Pressed(Esc) =>
              /\ input_mode' = "Normal"
              /\ ~should_quit'
              /\ lua' = lua
              /\ lua_calls' = <<>>
        /\ (pc \in {"check", "draw", "read"} /\ ~should_quit) =>
              (input_mode' = input_mode /\ ~should_quit' /\ lua' = lua)
        /\ (pc = "read" /\ input_mode = "Normal") =>
              (\E e \in {Key(Esc, "Press"), Key(Char("q"), "Press")} : Deliverable(e))
        /\ (Pressed(Char("q")) /\ input_mode = "Normal") =>
              (should_quit' /\ lua' = lua /\ lua_calls' = <<>>)
        /\ (pc = "check" /\ should_quit) =>
              (pc' = "disable_raw_mode" /\ res' = "Ok") ]_vars

\* C20 witness: after an executed command and a failed one, 'q' pressed in
\* Normal mode has set should_quit with no call of the interpreter.
C20_Witness ==
    /\ Handled(Char("q"))
    /\ should_quit
    /\ lua.globals["x"] = "1"
    /\ lua_calls = <<>>
    /\ key_calls = <<Char("q")>>

====
